---- MODULE Spec2Model ----
(***************************************************************************)
(* Model of get-last-error (src/src/lib.rs): the Win32Error value type,    *)
(* its conversions, and <Win32Error as Display>::fmt.                      *)
(*                                                                         *)
(* Text is modelled as sequences of integers: 16-bit code units for the    *)
(* FormatMessageW buffer, Unicode scalar values for chars.                 *)
(* Indices named as in the source (pos, i, start, end) are 0-based as in   *)
(* Rust; the TLA+ sequences holding the data are 1-based.                  *)
(*                                                                         *)
(* A 32-bit integer does not fit the model checker's integers, so a DWORD  *)
(* (u32) and a RawOsError (i32) are held as two 16-bit halves, the record  *)
(* [hi, lo] standing for hi * 2^16 + lo with lo in 0..65535; hi is in      *)
(* 0..65535 for a u32 and in -32768..32767 for an i32.                     *)
(***************************************************************************)
EXTENDS Integers, Sequences, FiniteSets

\* ---------------------------------------------------------------- bounds
\* Longest FormatMessageW result whose content is enumerated unit by unit.
MaxLen == 3
\* Longest chain of conversions applied to one value.
MaxSteps == 4

\* ------------------------------------------------------ program constants
\* maybe_uninit_uninit_array::<u16, 1024>()
BufLen == 1024
\* maybe_uninit_uninit_array::<char, 1024>()
CharBufLen == 1024
\* char::REPLACEMENT_CHARACTER
REPLACEMENT_CHARACTER == 65533
\* the width in "{:#08X}"
FmtWidth == 8

\* 2^16, the weight of the high half of a 32-bit integer
Half == 65536
\* 2^15: a u32 is at least 2^31 when its high half is at least 2^15
HalfSign == 32768

\* The 32-bit integer hi * 2^16 + lo.
Int32(hi, lo) == [hi |-> hi, lo |-> lo]

\* Option::None for the index- and unit-valued Options of the model.
None == -1

\* ------------------------------------------------------------ input sets
\* Code units FormatMessageW's text is built from: SPACE, IDEOGRAPHIC SPACE,
\* 'A', '.', a leading surrogate and a trailing surrogate.
Units == {32, 12288, 65, 46, 55357, 56832}
\* What the unwritten tail of the scratch buffer may hold.
Garbage == {0, 65}
\* Codes formatted by Display, with 1, 3, 6, 7 and 8 hex digits:
\* 0, 5, 0xABC, 0xABCDEF, 0x01234ABC, 0xFFFFFFFF.
DisplayCodes ==
    {Int32(0, 0), Int32(0, 5), Int32(0, 2748), Int32(171, 52719),
     Int32(291, 19132), Int32(65535, 65535)}
\* Codes run through the conversions, on both sides of the i32 sign
\* boundary: 0, 1, 5, 2^31 - 1, 2^31, 2^31 + 1, 2^32 - 1.
ConvCodes ==
    {Int32(0, 0), Int32(0, 1), Int32(0, 5), Int32(32767, 65535),
     Int32(32768, 0), Int32(32768, 1), Int32(65535, 65535)}
\* Raw codes an io::Error may carry (RawOsError = i32):
\* -2^31, -1, 0, 5, 2^31 - 1.
RawOsCodes ==
    {Int32(-32768, 0), Int32(-1, 65535), Int32(0, 0), Int32(0, 5),
     Int32(32767, 65535)}

RECURSIVE SeqsUpTo(_, _)
SeqsUpTo(S, m) ==
    IF m = 0 THEN {<<>>}
    ELSE LET shorter == SeqsUpTo(S, m - 1)
         IN  shorter \cup {Append(s, x) : s \in {t \in shorter : Len(t) = m - 1}, x \in S}

\* Short messages, every content up to MaxLen units.
ShortMessages == SeqsUpTo(Units, MaxLen) \ {<<>>}

\* Long messages, at and just under the capacity of the buffer:
\* all 'A', all surrogate pairs, all unpaired leading surrogates.
LongLens == {BufLen - 1, BufLen}
LongMessages ==
    {[j \in 1..L |-> 65] : L \in LongLens}
    \cup {[j \in 1..L |-> IF j % 2 = 1 THEN 55357 ELSE 56832] : L \in LongLens}
    \cup {[j \in 1..L |-> 55357] : L \in LongLens}

VARIABLES
    pc,        \* position in fmt / in the conversion chain
    self,      \* the Win32Error being displayed
    buf,       \* scratch buffer of u16 (BufLen slots)
    len,       \* FormatMessageW's return value
    pos,       \* units taken from wide_chars.iter()
    dbuf,      \* DecodeUtf16's one-unit lookahead (None when empty)
    maxRead,   \* number of leading slots of buf that have been read
    i,         \* number of chars written to char_buf
    char_buf,  \* the chars written so far (char_buf[..i])
    start,     \* first index written
    end,       \* index the write loop stops before
    k,         \* index of the next char the write loop writes
    pending,   \* chunks the hex fallback still has to write
    out,       \* what the sink has accepted
    attempts,  \* number of writes made to the sink
    rejected,  \* the sink has rejected a write
    ret,       \* fmt's return value: "none", "Ok", "Err"
    cur,       \* conversions: which of dword, w32, ioerr, result is current
    dword,     \* a DWORD
    w32,       \* a Win32Error
    ioerr,     \* an io::Error
    result,    \* a Result<Win32Error, TryFromIoError>
    orig,      \* the DWORD the chain started from
    hist       \* the conversions applied so far

fmtVars == <<self, buf, len, pos, dbuf, maxRead, i, char_buf, start, end, k,
             pending, out, attempts, rejected, ret>>
convVars == <<cur, dword, w32, ioerr, result, orig, hist>>
vars == <<pc, fmtVars, convVars>>

\* ---------------------------------------------------------- Win32Error
\* Variant of New: the code is kept in 16 bits.
NewTruncated(code) == [code |-> Int32(0, code.lo)]

\* Win32Error::new
New(code) == [code |-> code]

\* Win32Error::code
Code(e) == e.code

\* impl From<DWORD> for Win32Error
FromDword(other) == New(other)

\* impl From<Win32Error> for DWORD
IntoDword(other) == Code(other)

\* --------------------------------------------------- hex fallback text
\* One uppercase hexadecimal digit, as a char.
HexDigit(d) == IF d < 10 THEN 48 + d ELSE 55 + d

\* The hexadecimal digits of a natural number below 2^16, no leading zeros.
RECURSIVE HexOfNat(_)
HexOfNat(n) ==
    IF n < 16 THEN <<HexDigit(n)>>
    ELSE Append(HexOfNat(n \div 16), HexDigit(n % 16))

\* The four hexadecimal digits of a 16-bit half.
Hex4(n) ==
    <<HexDigit(n \div 4096), HexDigit((n \div 256) % 16),
      HexDigit((n \div 16) % 16), HexDigit(n % 16)>>

\* The digits UpperHex produces for a u32: no leading zeros, "0" for zero.
UpperHexDigits(n) ==
    IF n.hi = 0 THEN HexOfNat(n.lo) ELSE HexOfNat(n.hi) \o Hex4(n.lo)

\* The writes write!(f, "{:#08X}", self.0) makes to the sink, in order:
\* the prefix "0x" (the '#' flag), then one '0' per missing column of the
\* minimum width (the '0' flag; the width counts the prefix), then the digits.
FallbackChunks(code) ==
    LET digits == UpperHexDigits(code)
        width  == Len(digits) + 2
        pad    == IF width >= FmtWidth THEN 0 ELSE FmtWidth - width
    IN  <<(<<48, 120>>)>> \o [j \in 1..pad |-> <<48>>] \o <<digits>>

\* Variant of FallbackRet: the Result of write! is dropped and Ok(()) returned.
FallbackRetIgnoreSink(rej) == "Ok"

\* The value the fallback branch returns, given whether the sink rejected
\* one of the writes of write!: the Result of write! is fmt's result.
FallbackRet(rej) == IF rej THEN "Err" ELSE "Ok"

\* ------------------------------------------------------------- decoding
\* Variant of WideChars: the whole buffer is taken, &buf[..].
WideCharsWholeBuf(b, n) == b

\* &buf[..len]
WideChars(b, n) == SubSeq(b, 1, n)

IsSurrogate(u) == 55296 <= u /\ u <= 57343

\* Iterator::next of wide_chars.iter().copied(), at position p.
IterNext(w, p) ==
    IF p < Len(w) THEN [some |-> TRUE, u |-> w[p + 1], pos |-> p + 1]
    ELSE [some |-> FALSE, u |-> 0, pos |-> p]

\* Variant of DecodeUtf16Next: the unit read after an unpaired leading
\* surrogate is not put back.
DecodeUtf16NextNoPutBack(w, p, la) ==
    LET first == IF la # None THEN [some |-> TRUE, u |-> la, pos |-> p]
                 ELSE IterNext(w, p)
        u == first.u
    IN  IF ~first.some
        THEN [some |-> FALSE, ok |-> FALSE, c |-> 0, pos |-> first.pos, dbuf |-> None]
        ELSE IF ~IsSurrogate(u)
        THEN [some |-> TRUE, ok |-> TRUE, c |-> u, pos |-> first.pos, dbuf |-> None]
        ELSE IF u >= 56320
        THEN [some |-> TRUE, ok |-> FALSE, c |-> u, pos |-> first.pos, dbuf |-> None]
        ELSE LET second == IterNext(w, first.pos)
                 u2 == second.u
             IN  IF ~second.some \/ u2 < 56320 \/ u2 > 57343
                 THEN [some |-> TRUE, ok |-> FALSE, c |-> u, pos |-> second.pos, dbuf |-> None]
                 ELSE [some |-> TRUE, ok |-> TRUE,
                       c |-> (u % 1024) * 1024 + (u2 % 1024) + 65536,
                       pos |-> second.pos, dbuf |-> None]

\* DecodeUtf16::next: the lookahead unit first, else the next unit; a unit
\* that is no surrogate is a char; a trailing surrogate is an error; a
\* leading surrogate takes one more unit, which completes the pair or is
\* put back in the lookahead (the leading surrogate is then an error).
\* Result: some = FALSE at the end, else ok, the char c (or the bad unit),
\* and the iterator position and lookahead after the call.
DecodeUtf16Next(w, p, la) ==
    LET first == IF la # None THEN [some |-> TRUE, u |-> la, pos |-> p]
                 ELSE IterNext(w, p)
        u == first.u
    IN  IF ~first.some
        THEN [some |-> FALSE, ok |-> FALSE, c |-> 0, pos |-> first.pos, dbuf |-> None]
        ELSE IF ~IsSurrogate(u)
        THEN [some |-> TRUE, ok |-> TRUE, c |-> u, pos |-> first.pos, dbuf |-> None]
        ELSE IF u >= 56320
        THEN [some |-> TRUE, ok |-> FALSE, c |-> u, pos |-> first.pos, dbuf |-> None]
        ELSE LET second == IterNext(w, first.pos)
                 u2 == second.u
             IN  IF ~second.some
                 THEN [some |-> TRUE, ok |-> FALSE, c |-> u, pos |-> second.pos, dbuf |-> None]
                 ELSE IF u2 < 56320 \/ u2 > 57343
                 THEN [some |-> TRUE, ok |-> FALSE, c |-> u, pos |-> second.pos, dbuf |-> u2]
                 ELSE [some |-> TRUE, ok |-> TRUE,
                       c |-> (u % 1024) * 1024 + (u2 % 1024) + 65536,
                       pos |-> second.pos, dbuf |-> None]

\* .map(|r| r.unwrap_or(char::REPLACEMENT_CHARACTER))
UnwrapOrReplacement(r) == IF r.ok THEN r.c ELSE REPLACEMENT_CHARACTER

\* ------------------------------------------------------------- trimming
\* The code points with the White_Space property (char::is_whitespace).
WhiteSpace ==
    (9..13) \cup {32, 133, 160, 5760} \cup (8192..8202)
    \cup {8232, 8233, 8239, 8287, 12288}

IsWhitespace(c) == c \in WhiteSpace

NonWhitespaceAt(chars) == {j \in 0..(Len(chars) - 1) : ~IsWhitespace(chars[j + 1])}

\* chars.iter().position(|c| !c.is_whitespace())
Position(chars) ==
    LET S == NonWhitespaceAt(chars)
    IN  IF S = {} THEN None ELSE CHOOSE j \in S : \A m \in S : j <= m

\* chars.iter().rposition(|c| !c.is_whitespace())
RPosition(chars) ==
    LET S == NonWhitespaceAt(chars)
    IN  IF S = {} THEN None ELSE CHOOSE j \in S : \A m \in S : m <= j

\* Option::unwrap_or
UnwrapOr(opt, default) == IF opt = None THEN default ELSE opt

\* let start = ...position(..).unwrap_or(0)
StartOf(chars) == UnwrapOr(Position(chars), 0)

\* let end = ...rposition(..).unwrap_or(chars.len())
EndOf(chars) == UnwrapOr(RPosition(chars), Len(chars))

\* &char_buf[..i]
Chars(cb, n) == SubSeq(cb, 1, n)

\* ------------------------------------------------- io::Error conversions
\* Variant of AsI32: a saturating conversion, i32::try_from(..).unwrap_or(MAX).
AsI32Saturating(u) == IF u.hi >= HalfSign THEN Int32(HalfSign - 1, Half - 1) ELSE u

\* u32 as i32 (the "as _" of err.code() as _)
AsI32(u) == IF u.hi >= HalfSign THEN Int32(u.hi - Half, u.lo) ELSE u

\* i32 as u32 (the "as _" of Self::new(code as _))
AsU32(x) == Int32(x.hi % Half, x.lo)

\* io::Error::from_raw_os_error
FromRawOsError(raw) == [kind |-> "Os", raw |-> raw]

\* io::Error::raw_os_error: Some(code) for an OS error, None otherwise
RawOsError(err) ==
    IF err.kind = "Os" THEN [some |-> TRUE, v |-> err.raw]
    ELSE [some |-> FALSE, v |-> Int32(0, 0)]

\* Err(TryFromIoError)
ErrTryFromIoError == [ok |-> FALSE, val |-> New(Int32(0, 0)), err |-> "TryFromIoError"]

\* Ok(e)
Ok(e) == [ok |-> TRUE, val |-> e, err |-> ""]

\* Variant of TryFrom: a missing raw code becomes code 0, unwrap_or_default().
TryFromDefaulting(err) == Ok(New(AsU32(RawOsError(err).v)))

\* impl TryFrom<io::Error> for Win32Error
TryFrom(err) ==
    LET r == RawOsError(err)
    IN  IF r.some THEN Ok(New(AsU32(r.v))) ELSE ErrTryFromIoError

\* impl From<Win32Error> for io::Error
IntoIoError(err) == FromRawOsError(AsI32(Code(err)))

\* The io::Error values a caller may hold: OS errors, and errors with no
\* raw code (a bare ErrorKind, a custom payload).
IoErrors ==
    {FromRawOsError(c) : c \in RawOsCodes}
    \cup {[kind |-> "Simple", raw |-> Int32(0, 0)], [kind |-> "Custom", raw |-> Int32(0, 0)]}

\* ------------------------------------------------------- initial states
FmtIdle ==
    /\ self = New(Int32(0, 0))
    /\ buf = <<>>
    /\ len = 0
    /\ pos = 0
    /\ dbuf = None
    /\ maxRead = 0
    /\ i = 0
    /\ char_buf = <<>>
    /\ start = 0
    /\ end = 0
    /\ k = 0
    /\ pending = <<>>
    /\ out = <<>>
    /\ attempts = 0
    /\ rejected = FALSE
    /\ ret = "none"

ConvIdle ==
    /\ cur = "none"
    /\ dword = Int32(0, 0)
    /\ w32 = New(Int32(0, 0))
    /\ ioerr = [kind |-> "Simple", raw |-> Int32(0, 0)]
    /\ result = ErrTryFromIoError
    /\ orig = Int32(0, 0)
    /\ hist = <<>>

\* Entry of fmt for a Win32Error built with new: the scratch buffer is
\* uninitialized, so its slots hold whatever was there.
Init ==
    /\ pc = "fmt"
    /\ \E n \in DisplayCodes : self = New(n)
    /\ \E g \in Garbage : buf = [j \in 1..BufLen |-> g]
    /\ len = 0
    /\ pos = 0
    /\ dbuf = None
    /\ maxRead = 0
    /\ i = 0
    /\ char_buf = <<>>
    /\ start = 0
    /\ end = 0
    /\ k = 0
    /\ pending = <<>>
    /\ out = <<>>
    /\ attempts = 0
    /\ rejected = FALSE
    /\ ret = "none"
    /\ ConvIdle

\* ----------------------------------------------------- the steps of fmt
\* FormatMessageW fills the first len slots of buf and returns len; zero is
\* its failure.  Then the branch on len.
FormatMessageW ==
    /\ pc = "fmt"
    /\ \E m \in {<<>>} \cup ShortMessages \cup LongMessages :
          /\ len' = Len(m)
          /\ buf' = m \o SubSeq(buf, Len(m) + 1, BufLen)
          /\ IF Len(m) = 0
             THEN /\ pc' = "fallback"
                  /\ pending' = FallbackChunks(self.code)
             ELSE /\ pc' = "collect"
                  /\ pending' = <<>>
    /\ UNCHANGED <<self, pos, dbuf, maxRead, i, char_buf, start, end, k,
                   out, attempts, rejected, ret>>
    /\ UNCHANGED convVars

\* One write of write!(f, "{:#08X}", self.0) to the sink, which accepts or
\* rejects it; a rejection ends write! with the error.
FallbackWrite ==
    /\ pc = "fallback"
    /\ pending # <<>>
    /\ attempts' = attempts + 1
    /\ \E accept \in BOOLEAN :
          IF accept
          THEN /\ out' = out \o Head(pending)
               /\ pending' = Tail(pending)
               /\ rejected' = rejected
               /\ IF Tail(pending) = <<>>
                  THEN pc' = "done" /\ ret' = FallbackRet(FALSE)
                  ELSE pc' = pc /\ ret' = ret
          ELSE /\ rejected' = TRUE
               /\ pc' = "done"
               /\ ret' = FallbackRet(TRUE)
               /\ UNCHANGED <<out, pending>>
    /\ UNCHANGED <<self, buf, len, pos, dbuf, maxRead, i, char_buf, start, end, k>>
    /\ UNCHANGED convVars

\* One iteration of "for c in char_iter": char_buf[i].write(c); i += 1.
\* Indexing char_buf at or past its capacity panics.
CollectStep ==
    /\ pc = "collect"
    /\ LET r == DecodeUtf16Next(WideChars(buf, len), pos, dbuf)
       IN  /\ r.some
           /\ IF i < CharBufLen
              THEN /\ char_buf' = Append(char_buf, UnwrapOrReplacement(r))
                   /\ i' = i + 1
                   /\ pos' = r.pos
                   /\ dbuf' = r.dbuf
                   /\ maxRead' = IF r.pos > maxRead THEN r.pos ELSE maxRead
                   /\ pc' = pc
              ELSE /\ pc' = "panic"
                   /\ UNCHANGED <<char_buf, i, pos, dbuf, maxRead>>
    /\ UNCHANGED <<self, buf, len, start, end, k, pending, out, attempts, rejected, ret>>
    /\ UNCHANGED convVars

\* The iterator is exhausted: chars = char_buf[..i], start and end are
\* computed and the slice chars[start..end] is taken (start > end panics).
CollectDone ==
    /\ pc = "collect"
    /\ ~DecodeUtf16Next(WideChars(buf, len), pos, dbuf).some
    /\ LET chars == Chars(char_buf, i)
       IN  /\ start' = StartOf(chars)
           /\ end' = EndOf(chars)
           /\ k' = StartOf(chars)
           /\ pc' = IF StartOf(chars) > EndOf(chars) THEN "panic" ELSE "write"
    /\ UNCHANGED <<self, buf, len, pos, dbuf, maxRead, i, char_buf, pending,
                   out, attempts, rejected, ret>>
    /\ UNCHANGED convVars

\* One iteration of "for c in &chars[start..end]": f.write_char(*c)?
WriteStep ==
    /\ pc = "write"
    /\ k < end
    /\ attempts' = attempts + 1
    /\ \E accept \in BOOLEAN :
          IF accept
          THEN /\ out' = Append(out, Chars(char_buf, i)[k + 1])
               /\ k' = k + 1
               /\ UNCHANGED <<pc, rejected, ret>>
          ELSE /\ rejected' = TRUE
               /\ ret' = "Err"
               /\ pc' = "done"
               /\ UNCHANGED <<out, k>>
    /\ UNCHANGED <<self, buf, len, pos, dbuf, maxRead, i, char_buf, start, end, pending>>
    /\ UNCHANGED convVars

\* The loop is over: Ok(())
WriteDone ==
    /\ pc = "write"
    /\ k >= end
    /\ ret' = "Ok"
    /\ pc' = "done"
    /\ UNCHANGED <<self, buf, len, pos, dbuf, maxRead, i, char_buf, start, end, k,
                   pending, out, attempts, rejected>>
    /\ UNCHANGED convVars

Next ==
    \/ FormatMessageW
    \/ FallbackWrite
    \/ CollectStep
    \/ CollectDone
    \/ WriteStep
    \/ WriteDone

Spec == Init /\ [][Next]_vars

\* ------------------------------------------------------ conversion chains
\* A caller holds a DWORD or an io::Error and applies the conversions.
InitConv ==
    /\ pc = "conv"
    /\ FmtIdle
    /\ hist = <<>>
    /\ w32 = New(Int32(0, 0))
    /\ result = ErrTryFromIoError
    /\ \/ /\ cur = "dword"
          /\ dword \in ConvCodes
          /\ orig = dword
          /\ ioerr = [kind |-> "Simple", raw |-> Int32(0, 0)]
       \/ /\ cur = "io"
          /\ ioerr \in IoErrors
          /\ orig = Int32(0, 0)
          /\ dword = Int32(0, 0)

Apply(op) ==
    /\ pc = "conv"
    /\ Len(hist) < MaxSteps
    /\ hist' = Append(hist, op)
    /\ UNCHANGED <<pc, orig>>
    /\ UNCHANGED fmtVars

ConvNew ==
    /\ cur = "dword"
    /\ Apply("new")
    /\ w32' = New(dword)
    /\ cur' = "w32"
    /\ UNCHANGED <<dword, ioerr, result>>

ConvFrom ==
    /\ cur = "dword"
    /\ Apply("from")
    /\ w32' = FromDword(dword)
    /\ cur' = "w32"
    /\ UNCHANGED <<dword, ioerr, result>>

ConvCode ==
    /\ cur = "w32"
    /\ Apply("code")
    /\ dword' = Code(w32)
    /\ cur' = "dword"
    /\ UNCHANGED <<w32, ioerr, result>>

ConvInto ==
    /\ cur = "w32"
    /\ Apply("into")
    /\ dword' = IntoDword(w32)
    /\ cur' = "dword"
    /\ UNCHANGED <<w32, ioerr, result>>

ConvIntoIo ==
    /\ cur = "w32"
    /\ Apply("into_io")
    /\ ioerr' = IntoIoError(w32)
    /\ cur' = "io"
    /\ UNCHANGED <<dword, w32, result>>

ConvTryFrom ==
    /\ cur = "io"
    /\ Apply("try_from")
    /\ result' = TryFrom(ioerr)
    /\ cur' = "result"
    /\ UNCHANGED <<dword, w32, ioerr>>

NextConv ==
    \/ ConvNew
    \/ ConvFrom
    \/ ConvCode
    \/ ConvInto
    \/ ConvIntoIo
    \/ ConvTryFrom

SpecConv == InitConv /\ [][NextConv]_vars

\* ================================================================ claims
\* What the claims speak of, stated without the operators of fmt.
DoneMessage == pc = "done" /\ len > 0
DoneFallback == pc = "done" /\ len = 0 /\ ret # "none"

\* The decoded text fmt trims.
Decoded == SubSeq(char_buf, 1, i)

\* 1-based indices of the scalars of t that are not whitespace.
NonWs(t) == {j \in 1..Len(t) : t[j] \notin WhiteSpace}
FirstNonWs(t) == CHOOSE j \in NonWs(t) : \A m \in NonWs(t) : j <= m
LastNonWs(t) == CHOOSE j \in NonWs(t) : \A m \in NonWs(t) : m <= j

\* t without its leading and trailing whitespace.
Trimmed(t) == IF NonWs(t) = {} THEN <<>> ELSE SubSeq(t, FirstNonWs(t), LastNonWs(t))

\* C1: when the decoded text has a scalar that is not whitespace and the sink
\* accepts every write, the sink receives exactly the scalars from the first
\* to the last non-whitespace one, inclusive, in order.
C1_WritesFirstToLastNonWhitespace ==
    (DoneMessage /\ ~rejected /\ NonWs(Decoded) # {})
        => out = SubSeq(Decoded, FirstNonWs(Decoded), LastNonWs(Decoded))

\* C2: when every decoded scalar is whitespace, fmt makes no write to the
\* sink, the rendered text is empty, and fmt returns Ok.
C2_AllWhitespaceWritesNothing ==
    (DoneMessage /\ NonWs(Decoded) = {})
        => (attempts = 0 /\ out = <<>> /\ ret = "Ok")

\* C3: when FormatMessageW returns zero and the sink accepts every write, the
\* sink receives "0x" followed by the 8 uppercase hexadecimal digits of the
\* code, zero-padded on the left: 10 characters.
C3_FallbackIsTenCharacters ==
    (DoneFallback /\ ~rejected)
        => (out = <<48, 120>> \o Hex4(self.code.hi) \o Hex4(self.code.lo)
            /\ Len(out) = 10)

\* C4 as claimed: in the fallback branch fmt returns Ok whatever the sink does.
C4_FallbackAlwaysOk == DoneFallback => ret = "Ok"

\* C4 as amended: in the fallback branch fmt has written through the sink and
\* returns Ok exactly when the sink rejected no write; a zero result of
\* FormatMessageW alone never makes fmt fail.
C4_FallbackOkUnlessSinkRejects ==
    DoneFallback
        => (/\ attempts > 0
            /\ ret \in {"Ok", "Err"}
            /\ (ret = "Ok") <=> ~rejected)

C4_Witness == DoneFallback /\ rejected /\ ret = "Err" /\ attempts = 2

\* C5: in the message branch, when the sink rejects the k-th write, fmt
\* returns the failure and the sink has accepted exactly the first k-1
\* scalars of the trimmed text; when the sink rejects no write fmt returns Ok.
C5_RejectionLeavesPrefixOfTrimmedText ==
    DoneMessage
        => (/\ rejected => (/\ ret = "Err"
                            /\ attempts - 1 <= Len(Trimmed(Decoded))
                            /\ out = SubSeq(Trimmed(Decoded), 1, attempts - 1))
            /\ ~rejected => ret = "Ok")

\* C6: a Win32Error converted into an io::Error and back is Ok(e) with e the
\* Win32Error converted, equal to the one new and from build from its code,
\* also for codes of 2^31 and above.
C6_OsErrorRoundTrip ==
    (cur = "result" /\ Len(hist) >= 2 /\ hist[Len(hist) - 1] = "into_io")
        => (/\ result.ok
            /\ result.val = w32
            /\ result.val.code = dword
            /\ result.val = New(dword)
            /\ result.val = FromDword(dword))

C6_Witness ==
    /\ cur = "result"
    /\ hist = <<"new", "into_io", "try_from">>
    /\ orig = Int32(32768, 1)
    /\ ioerr.raw.hi < 0
    /\ result.ok
    /\ result.val.code = orig

\* C7: try_from fails with TryFromIoError exactly when the io::Error has no
\* raw OS code; with raw code c it is Ok of the Win32Error whose code is c as
\* an unsigned 32-bit value.
C7_TryFromFailsIffNoRawCode ==
    (cur = "result" /\ hist # <<>>)
        => (/\ result.ok <=> ioerr.kind = "Os"
            /\ ~result.ok => result.err = "TryFromIoError"
            /\ result.ok =>
                  /\ result.err = ""
                  /\ result.val.code.lo = ioerr.raw.lo
                  /\ result.val.code.hi \in 0..(Half - 1)
                  /\ result.val.code.hi =
                        IF ioerr.raw.hi < 0 THEN ioerr.raw.hi + Half ELSE ioerr.raw.hi)

C7_Witness ==
    /\ cur = "result"
    /\ hist = <<"try_from">>
    /\ ioerr.kind = "Custom"
    /\ ~result.ok

\* C8: DWORD -> Win32Error -> DWORD gives back the DWORD, through from/into
\* and through new/code, and Win32Error -> DWORD -> Win32Error gives back the
\* Win32Error.
C8_DwordRoundTrip ==
    [][/\ (cur = "w32" /\ cur' = "dword") => dword' = dword
       /\ (cur = "dword" /\ hist # <<>> /\ cur' = "w32") => w32' = w32]_vars

C8_Witness ==
    /\ hist = <<"from", "into", "from">>
    /\ orig = Int32(65535, 65535)
    /\ dword = orig
    /\ w32.code = orig

\* C9: the decoded text has, in input order, one scalar per unit that is no
\* surrogate, one scalar per leading surrogate followed by a trailing one, and
\* one U+FFFD per other surrogate; decoding does not fail.
IsLead(u) == 55296 <= u /\ u <= 56319
IsTrail(u) == 56320 <= u /\ u <= 57343
PairHead(w, j) == IsLead(w[j]) /\ j < Len(w) /\ IsTrail(w[j + 1])
PairTail(w, j) == IsTrail(w[j]) /\ j > 1 /\ IsLead(w[j - 1])
ScalarAt(w, j) ==
    IF PairHead(w, j) THEN 65536 + (w[j] - 55296) * 1024 + (w[j + 1] - 56320)
    ELSE IF IsLead(w[j]) \/ IsTrail(w[j]) THEN 65533
    ELSE w[j]
Producing(w) == {j \in 1..Len(w) : ~PairTail(w, j)}
Rank(w, j) == Cardinality({m \in Producing(w) : m <= j})
Written == SubSeq(buf, 1, len)

C9_DecodeReplacesInvalidUnits ==
    /\ pc # "panic"
    /\ (pc = "write" /\ k = start /\ attempts = 0)
          => (/\ Len(Decoded) = Cardinality(Producing(Written))
              /\ \A j \in Producing(Written) :
                    Decoded[Rank(Written, j)] = ScalarAt(Written, j))

C9_Witness ==
    /\ pc = "write"
    /\ len = 3
    /\ Written = <<55357, 55357, 56832>>
    /\ Decoded = <<65533, 128512>>

\* C10: while collecting, and after, i <= units consumed <= len <= 1024: no
\* write to char_buf is out of bounds, no slot of buf at or past len is read,
\* and the sink receives at most 1024 scalars.
C10_BuffersStayInBounds ==
    (pc \in {"collect", "write", "done", "panic"} /\ len > 0)
        => (/\ pc # "panic"
            /\ i <= pos - (IF dbuf = None THEN 0 ELSE 1)
            /\ pos <= len
            /\ len <= BufLen
            /\ maxRead <= len
            /\ i <= CharBufLen
            /\ Len(out) <= CharBufLen)

C10_Witness ==
    /\ pc = "write"
    /\ len = BufLen
    /\ pos = BufLen
    /\ i = CharBufLen

====
